---- MODULE Spec2Model ----
(***************************************************************************)
(* Commit ingestion pipeline: GitExtractor (extract_commits,               *)
(* _extract_commit_data, save_to_csv, get_statistics), DatabaseLoader      *)
(* (connect, create_table_if_not_exists, load_dataframe, get_record_count, *)
(* close) and the orchestration in scripts/run_ingestion.py (main).        *)
(***************************************************************************)
EXTENDS Integers, Sequences, FiniteSets, TLC

\* ---------------------------------------------------------------- bounds
\* largest max_commits the configuration may hold
MaxCommits == 3
\* largest number of rows the raw_commits table is followed up to
MaxTableRows == 3

\* ---------------------------------------------------------------- state
VARIABLES
    pc,            \* position of main() (or "loader" under LoaderSpec)
    failure,       \* the step whose exception left main(), "none" otherwise
    max_commits,   \* ingestion_config['max_commits']
    idx,           \* number of commits taken from commits[:max_commits]
    commit,        \* the loop variable of extract_commits
    exhausted,     \* the paginated list ended before max_commits
    commits_data,  \* list of commit_dict built by the loop
    errorLog,      \* the logger.error records of the per-commit handler
    now,           \* the wall clock read by datetime.now()
    df,            \* the DataFrame returned by extract_commits
    stats,         \* the dict returned by get_statistics
    engine,        \* DatabaseLoader.engine
    link,          \* what happened to the engine: never/failed/connected/disposed
    table,         \* the raw_commits table of the database
    lastOp,        \* last DatabaseLoader method called
    lastResult     \* how it ended

extractVars == <<max_commits, idx, commit, exhausted, commits_data, errorLog, now, df, stats>>
loaderVars == <<engine, link, table, lastOp, lastResult>>
vars == <<pc, failure, max_commits, idx, commit, exhausted, commits_data, errorLog,
          now, df, stats, engine, link, table, lastOp, lastResult>>

\* ---------------------------------------------------------------- commit handles
\* what commit.commit.author can be: None, or a GitAuthor
Authors ==
    { [present |-> FALSE, email |-> "", name |-> ""],
      [present |-> TRUE, email |-> "ann@x", name |-> "Ann"],
      [present |-> TRUE, email |-> "bob@x", name |-> "Bob"] }

\* what commit.stats can be: a failed remote read, None, or a CommitStats
\* whose three numbers are the ones the API delivered
StatsValues ==
    { [tag |-> "raises", additions |-> 0, deletions |-> 0, total |-> 0],
      [tag |-> "none", additions |-> 0, deletions |-> 0, total |-> 0] }
    \cup { [tag |-> "ok", additions |-> a, deletions |-> 1, total |-> 3] : a \in {1, 2} }

\* what commit.files can be: a PaginatedList with totalCount, a plain list
\* (no totalCount attribute), or a failed remote read
FilesValues ==
    { [tag |-> "totalCount", count |-> 1],
      [tag |-> "listOnly", count |-> 1],
      [tag |-> "raises", count |-> 0] }

NoCommit ==
    [sha |-> 0, author |-> [present |-> FALSE, email |-> "", name |-> ""],
     date |-> 0,
     stats |-> [tag |-> "none", additions |-> 0, deletions |-> 0, total |-> 0],
     files |-> [tag |-> "raises", count |-> 0]]

\* the commit handles the paginated list can yield at position k
CommitHandles(k) ==
    { [sha |-> k, author |-> a, date |-> k, stats |-> s, files |-> f] :
        a \in Authors, s \in StatsValues, f \in FilesValues }

NoRecord ==
    [commit_hash |-> 0, author |-> "", author_name |-> "", timestamp |-> 0,
     files_changed |-> 0, lines_added |-> 0, lines_deleted |-> 0, total_changes |-> 0]

\* _extract_commit_data: the statements in the order the code runs them; the
\* first one that raises decides the exception
ExtractCommitData(c) ==
    IF c.stats.tag = "raises"
    THEN [ok |-> FALSE, cause |-> "source:stats", data |-> NoRecord]
    ELSE IF c.files.tag = "raises"
    THEN [ok |-> FALSE, cause |-> "source:files", data |-> NoRecord]
    ELSE IF ~c.author.present
    THEN [ok |-> FALSE, cause |-> "attribute:author", data |-> NoRecord]
    ELSE IF c.stats.tag = "none"
    THEN [ok |-> FALSE, cause |-> "attribute:stats", data |-> NoRecord]
    ELSE [ok |-> TRUE, cause |-> "none",
          data |-> [commit_hash |-> c.sha,
                    author |-> IF c.author.present THEN c.author.email ELSE "unknown",
                    author_name |-> IF c.author.present THEN c.author.name ELSE "unknown",
                    timestamp |-> c.date,
                    files_changed |-> c.files.count,
                    lines_added |-> c.stats.additions,
                    lines_deleted |-> c.stats.deletions,
                    total_changes |-> c.stats.total]]


\* ---------------------------------------------------------------- DataFrame
RecordColumns ==
    {"commit_hash", "author", "author_name", "timestamp", "files_changed",
     "lines_added", "lines_deleted", "total_changes"}

NoFrame == [columns |-> {}, rows |-> <<>>]

\* (variant: the clock read again for each row)
SetExtractedAtPerRow(rows, t) ==
    [i \in 1..Len(rows) |->
        [commit_hash |-> rows[i].commit_hash, author |-> rows[i].author,
         author_name |-> rows[i].author_name, timestamp |-> rows[i].timestamp,
         files_changed |-> rows[i].files_changed, lines_added |-> rows[i].lines_added,
         lines_deleted |-> rows[i].lines_deleted, total_changes |-> rows[i].total_changes,
         extracted_at |-> t + i]]

\* df['extracted_at'] = value: one scalar broadcast to every row
SetExtractedAt(rows, t) ==
    [i \in 1..Len(rows) |->
        [commit_hash |-> rows[i].commit_hash, author |-> rows[i].author,
         author_name |-> rows[i].author_name, timestamp |-> rows[i].timestamp,
         files_changed |-> rows[i].files_changed, lines_added |-> rows[i].lines_added,
         lines_deleted |-> rows[i].lines_deleted, total_changes |-> rows[i].total_changes,
         extracted_at |-> t]]

\* pd.DataFrame(commits_data) followed by df['extracted_at'] = datetime.now():
\* a list of no dicts gives a frame with no columns at all, so the empty
\* result carries the single column extracted_at
BuildFrame(data, t) ==
    [columns |-> (IF data = <<>> THEN {} ELSE RecordColumns) \cup {"extracted_at"},
     rows |-> SetExtractedAt(data, t)]

RECURSIVE SumOf(_, _)
SumOf(rows, col) ==
    IF rows = <<>> THEN 0
    ELSE (CASE col = "files_changed" -> Head(rows).files_changed
            [] col = "lines_added" -> Head(rows).lines_added
            [] OTHER -> Head(rows).lines_deleted) + SumOf(Tail(rows), col)

Undefined == [defined |-> FALSE, value |-> 0]
Defined(v) == [defined |-> TRUE, value |-> v]

SetMin(S) == CHOOSE x \in S : \A y \in S : x <= y
SetMax(S) == CHOOSE x \in S : \A y \in S : x >= y

\* Series.mean(): NaN on no rows, else sum / count (kept as the exact pair)
Mean(rows, col) ==
    IF rows = <<>> THEN [defined |-> FALSE, num |-> 0, den |-> 0]
    ELSE [defined |-> TRUE, num |-> SumOf(rows, col), den |-> Len(rows)]

NoStats ==
    [total_commits |-> 0, unique_authors |-> 0, start |-> Undefined, end |-> Undefined,
     avg_files_changed |-> [defined |-> FALSE, num |-> 0, den |-> 0],
     avg_lines_added |-> [defined |-> FALSE, num |-> 0, den |-> 0],
     avg_lines_deleted |-> [defined |-> FALSE, num |-> 0, den |-> 0],
     total_lines_added |-> 0, total_lines_deleted |-> 0]

\* get_statistics: df['author'] is the first column lookup after len(df); a
\* missing column raises KeyError
GetStatistics(d) ==
    IF ~({"author", "timestamp", "files_changed", "lines_added", "lines_deleted"}
            \subseteq d.columns)
    THEN [ok |-> FALSE, value |-> NoStats]
    ELSE [ok |-> TRUE,
          value |->
            [total_commits |-> Len(d.rows),
             unique_authors |-> Cardinality({d.rows[i].author : i \in 1..Len(d.rows)}),
             start |-> IF d.rows = <<>> THEN Undefined
                       ELSE Defined(SetMin({d.rows[i].timestamp : i \in 1..Len(d.rows)})),
             end |-> IF d.rows = <<>> THEN Undefined
                     ELSE Defined(SetMax({d.rows[i].timestamp : i \in 1..Len(d.rows)})),
             avg_files_changed |-> Mean(d.rows, "files_changed"),
             avg_lines_added |-> Mean(d.rows, "lines_added"),
             avg_lines_deleted |-> Mean(d.rows, "lines_deleted"),
             total_lines_added |-> SumOf(d.rows, "lines_added"),
             total_lines_deleted |-> SumOf(d.rows, "lines_deleted")]]

\* ---------------------------------------------------------------- DatabaseLoader
NoTable == [exists |-> FALSE, unique |-> FALSE, rows |-> <<>>]

Hashes(rows) == [i \in 1..Len(rows) |-> rows[i].commit_hash]

Range(s) == {s[i] : i \in 1..Len(s)}

\* commit_hash values that would break UNIQUE when hs is inserted after old
Duplicates(old, hs) ==
    \/ Range(old) \cap Range(hs) # {}
    \/ Cardinality(Range(hs)) # Len(hs)

\* DatabaseLoader.connect: create_engine assigns self.engine before the probe
\* SELECT 1 runs; either may raise, and the handler re-raises
connect(outcome) ==
    /\ lastOp' = "connect"
    /\ CASE outcome = "create_engine_raises" ->
              /\ UNCHANGED <<engine, link>>
              /\ lastResult' = "ArgumentError"
         [] outcome = "probe_raises" ->
              /\ engine' = "Engine"
              /\ link' = "failed"
              /\ lastResult' = "OperationalError"
         [] OTHER ->
              /\ engine' = "Engine"
              /\ link' = "connected"
              /\ lastResult' = "ok"
    /\ UNCHANGED table

\* (variant: plain CREATE TABLE, which the server rejects for an existing table)
create_table_unguarded(outcome) ==
    /\ lastOp' = "create_table_if_not_exists"
    /\ UNCHANGED <<engine, link>>
    /\ IF engine = "None"
       THEN lastResult' = "AttributeError" /\ UNCHANGED table
       ELSE IF outcome = "raises"
       THEN lastResult' = "OperationalError" /\ UNCHANGED table
       ELSE IF table.exists
       THEN lastResult' = "ProgrammingError" /\ UNCHANGED table
       ELSE /\ lastResult' = "ok"
            /\ table' = [exists |-> TRUE, unique |-> TRUE, rows |-> <<>>]

\* (variant: the DDL declares commit_hash without UNIQUE)
create_table_without_unique(outcome) ==
    /\ lastOp' = "create_table_if_not_exists"
    /\ UNCHANGED <<engine, link>>
    /\ IF engine = "None"
       THEN lastResult' = "AttributeError" /\ UNCHANGED table
       ELSE IF outcome = "raises"
       THEN lastResult' = "OperationalError" /\ UNCHANGED table
       ELSE /\ lastResult' = "ok"
            /\ table' = IF table.exists THEN table
                        ELSE [exists |-> TRUE, unique |-> FALSE, rows |-> <<>>]

\* DatabaseLoader.create_table_if_not_exists: CREATE TABLE IF NOT EXISTS with
\* commit_hash UNIQUE; self.engine.connect() on None raises inside the try
create_table_if_not_exists(outcome) ==
    /\ lastOp' = "create_table_if_not_exists"
    /\ UNCHANGED <<engine, link>>
    /\ IF engine = "None"
       THEN lastResult' = "AttributeError" /\ UNCHANGED table
       ELSE IF outcome = "raises"
       THEN lastResult' = "OperationalError" /\ UNCHANGED table
       ELSE /\ lastResult' = "ok"
            /\ table' = IF table.exists THEN table
                        ELSE [exists |-> TRUE, unique |-> TRUE, rows |-> <<>>]

\* DatabaseLoader.load_dataframe(df, if_exists='append'): the guard on
\* self.engine, then DataFrame.to_sql, which creates a missing table itself
\* (no constraint) and inserts all rows in one transaction
load_dataframe(d, outcome) ==
    /\ lastOp' = "load_dataframe"
    /\ UNCHANGED <<engine, link>>
    /\ IF engine = "None"
       THEN lastResult' = "NotConnected" /\ UNCHANGED table
       ELSE IF outcome = "raises"
       THEN lastResult' = "OperationalError" /\ UNCHANGED table
       ELSE IF table.exists /\ table.unique /\ Duplicates(table.rows, Hashes(d.rows))
       THEN lastResult' = "IntegrityError" /\ UNCHANGED table
       ELSE /\ lastResult' = "ok"
            /\ table' = [exists |-> TRUE, unique |-> table.exists /\ table.unique,
                         rows |-> table.rows \o Hashes(d.rows)]

\* DatabaseLoader.get_record_count: any exception is logged and 0 returned
get_record_count(outcome) ==
    /\ lastOp' = "get_record_count"
    /\ lastResult' = "ok"
    /\ UNCHANGED <<engine, link, table>>

\* DatabaseLoader.close: dispose() only when self.engine is set; self.engine
\* keeps its value
close ==
    /\ lastOp' = "close"
    /\ lastResult' = "ok"
    /\ link' = IF engine = "None" THEN link ELSE "disposed"
    /\ UNCHANGED <<engine, table>>


\* ---------------------------------------------------------------- main()
Init ==
    /\ pc = "load_main_config"
    /\ failure = "none"
    /\ max_commits = 0
    /\ idx = 0
    /\ commit = NoCommit
    /\ exhausted = FALSE
    /\ commits_data = <<>>
    /\ errorLog = <<>>
    /\ now = 0
    /\ df = NoFrame
    /\ stats = NoStats
    /\ engine = "None"
    /\ link = "never"
    /\ table = NoTable
    /\ lastOp = "none"
    /\ lastResult = "none"

\* an exception reaches main's outer handler, which logs and re-raises
Raise(step) ==
    /\ pc' = "raised"
    /\ failure' = step

\* ConfigLoader().load_main_config() and the ingestion settings
LoadMainConfig ==
    /\ pc = "load_main_config"
    /\ now' = now + 1
    /\ \/ /\ \E n \in 0..MaxCommits : max_commits' = n
          /\ pc' = "get_repo"
          /\ UNCHANGED failure
       \/ /\ Raise("load_main_config")
          /\ UNCHANGED max_commits
    /\ UNCHANGED <<idx, commit, exhausted, commits_data, errorLog, df, stats>>
    /\ UNCHANGED loaderVars

\* extract_commits: get_repo and get_commits(sha=branch); an unknown
\* repository or branch raises GithubException, logged and re-raised
GetRepo ==
    /\ pc = "get_repo"
    /\ now' = now + 1
    /\ \/ pc' = "fetch" /\ UNCHANGED failure
       \/ Raise("get_repo")
    /\ UNCHANGED <<max_commits, idx, commit, exhausted, commits_data, errorLog, df, stats>>
    /\ UNCHANGED loaderVars

\* commits[:max_commits]: the slice is finished once max_commits were taken
SliceFinishedInclusive(i, n) == i > n
\* (variant: the bound is tested only after the first item was yielded)
SliceFinishedAfterFirst(i, n) == i >= n /\ i > 0
SliceFinished(i, n) == i >= n

\* for idx, commit in enumerate(commits[:max_commits]): the slice stops at
\* max_commits; before that the list yields a commit, ends, or a page
\* request raises (outside the per-commit try)
Fetch ==
    /\ pc = "fetch"
    /\ now' = now + 1
    /\ IF SliceFinished(idx, max_commits)
       THEN /\ pc' = "stamp"
            /\ UNCHANGED <<failure, idx, commit, exhausted>>
       ELSE \/ /\ \E c \in CommitHandles(idx + 1) : commit' = c
               /\ idx' = idx + 1
               /\ pc' = "process"
               /\ UNCHANGED <<failure, exhausted>>
            \/ /\ exhausted' = TRUE
               /\ pc' = "stamp"
               /\ UNCHANGED <<failure, idx, commit>>
            \/ /\ Raise("pagination")
               /\ UNCHANGED <<idx, commit, exhausted>>
    /\ UNCHANGED <<max_commits, commits_data, errorLog, df, stats>>
    /\ UNCHANGED loaderVars

\* (variant: the record is inserted at the front of the list)
ProcessPrepend ==
    /\ pc = "process"
    /\ now' = now + 1
    /\ LET r == ExtractCommitData(commit)
       IN IF r.ok
          THEN /\ commits_data' = <<r.data>> \o commits_data
               /\ UNCHANGED errorLog
          ELSE /\ errorLog' = Append(errorLog, [sha |-> commit.sha, cause |-> r.cause])
               /\ UNCHANGED commits_data
    /\ pc' = "fetch"
    /\ UNCHANGED <<failure, max_commits, idx, commit, exhausted, df, stats>>
    /\ UNCHANGED loaderVars

\* the loop body: try _extract_commit_data and append; except Exception:
\* logger.error with the commit's sha and the exception, then continue
Process ==
    /\ pc = "process"
    /\ now' = now + 1
    /\ LET r == ExtractCommitData(commit)
       IN IF r.ok
          THEN /\ commits_data' = Append(commits_data, r.data)
               /\ UNCHANGED errorLog
          ELSE /\ errorLog' = Append(errorLog, [sha |-> commit.sha, cause |-> r.cause])
               /\ UNCHANGED commits_data
    /\ pc' = "fetch"
    /\ UNCHANGED <<failure, max_commits, idx, commit, exhausted, df, stats>>
    /\ UNCHANGED loaderVars

\* df = pd.DataFrame(commits_data); df['extracted_at'] = datetime.now(); return df
Stamp ==
    /\ pc = "stamp"
    /\ now' = now + 1
    /\ df' = BuildFrame(commits_data, now)
    /\ pc' = "save_to_csv"
    /\ UNCHANGED <<failure, max_commits, idx, commit, exhausted, commits_data, errorLog, stats>>
    /\ UNCHANGED loaderVars

\* (variant: the export's exception is logged and the run goes on)
SaveToCsvSwallowed ==
    /\ pc = "save_to_csv"
    /\ now' = now + 1
    /\ \/ pc' = "get_statistics" /\ UNCHANGED failure
       \/ pc' = "get_statistics" /\ failure' = "save_to_csv"
    /\ UNCHANGED <<max_commits, idx, commit, exhausted, commits_data, errorLog, df, stats>>
    /\ UNCHANGED loaderVars

\* extractor.save_to_csv(df, output_path): makedirs and to_csv, no handler
SaveToCsv ==
    /\ pc = "save_to_csv"
    /\ now' = now + 1
    /\ \/ pc' = "get_statistics" /\ UNCHANGED failure
       \/ Raise("save_to_csv")
    /\ UNCHANGED <<max_commits, idx, commit, exhausted, commits_data, errorLog, df, stats>>
    /\ UNCHANGED loaderVars

\* stats = extractor.get_statistics(df) and the statistics log lines
Statistics ==
    /\ pc = "get_statistics"
    /\ now' = now + 1
    /\ LET r == GetStatistics(df)
       IN IF r.ok
          THEN /\ stats' = r.value
               /\ pc' = "get_database_url"
               /\ UNCHANGED failure
          ELSE /\ Raise("get_statistics")
               /\ UNCHANGED stats
    /\ UNCHANGED <<max_commits, idx, commit, exhausted, commits_data, errorLog, df>>
    /\ UNCHANGED loaderVars

\* the inner try of main: any exception of a database step is logged as a
\* warning and the run goes on to its completion banner
DbStep(ok, next) ==
    /\ pc' = IF ok THEN next ELSE "complete"
    /\ now' = now + 1
    /\ UNCHANGED <<failure, max_commits, idx, commit, exhausted, commits_data, errorLog, df, stats>>

\* config_loader.get_database_url(); db_loader = DatabaseLoader(db_url)
GetDatabaseUrl ==
    /\ pc = "get_database_url"
    /\ \E ok \in BOOLEAN :
         /\ DbStep(ok, "connect")
         /\ lastOp' = "get_database_url"
         /\ lastResult' = IF ok THEN "ok" ELSE "ConfigError"
    /\ UNCHANGED <<engine, link, table>>

MainConnect ==
    /\ pc = "connect"
    /\ \E o \in {"ok", "create_engine_raises", "probe_raises"} :
         /\ connect(o)
         /\ DbStep(o = "ok", "create_table_if_not_exists")

MainCreateTable ==
    /\ pc = "create_table_if_not_exists"
    /\ \E o \in {"ok", "raises"} :
         /\ create_table_if_not_exists(o)
         /\ DbStep(lastResult' = "ok", "load_dataframe")

MainLoad ==
    /\ pc = "load_dataframe"
    /\ \E o \in {"ok", "raises"} :
         /\ load_dataframe(df, o)
         /\ DbStep(lastResult' = "ok", "get_record_count")

MainCount ==
    /\ pc = "get_record_count"
    /\ \E o \in {"ok", "raises"} : get_record_count(o)
    /\ DbStep(TRUE, "close")

MainClose ==
    /\ pc = "close"
    /\ close
    /\ DbStep(TRUE, "complete")

Next ==
    \/ LoadMainConfig
    \/ GetRepo
    \/ Fetch
    \/ Process
    \/ Stamp
    \/ SaveToCsv
    \/ Statistics
    \/ GetDatabaseUrl
    \/ MainConnect
    \/ MainCreateTable
    \/ MainLoad
    \/ MainCount
    \/ MainClose

Spec == Init /\ [][Next]_vars

\* ---------------------------------------------------------------- the loader alone
\* the frames a caller can hand to load_dataframe
LoaderFrames ==
    { BuildFrame(data, 0) :
        data \in { <<>> } \cup
                 { <<[NoRecord EXCEPT !.commit_hash = h]>> : h \in 1..2 } \cup
                 { <<[NoRecord EXCEPT !.commit_hash = h], [NoRecord EXCEPT !.commit_hash = g]>> :
                       h \in 1..2, g \in 1..2 } }

LoaderInit ==
    /\ pc = "loader"
    /\ failure = "none"
    /\ max_commits = 0
    /\ idx = 0
    /\ commit = NoCommit
    /\ exhausted = FALSE
    /\ commits_data = <<>>
    /\ errorLog = <<>>
    /\ now = 0
    /\ df = NoFrame
    /\ stats = NoStats
    /\ engine = "None"
    /\ link = "never"
    /\ table = NoTable
    /\ lastOp = "none"
    /\ lastResult = "none"

LConnect ==
    /\ \E o \in {"ok", "create_engine_raises", "probe_raises"} : connect(o)
    /\ UNCHANGED <<pc, failure>> /\ UNCHANGED extractVars

LCreateTable ==
    /\ \E o \in {"ok", "raises"} : create_table_if_not_exists(o)
    /\ UNCHANGED <<pc, failure>> /\ UNCHANGED extractVars

LLoad ==
    /\ \E d \in LoaderFrames, o \in {"ok", "raises"} :
         /\ Len(table.rows) + Len(d.rows) <= MaxTableRows
         /\ load_dataframe(d, o)
    /\ UNCHANGED <<pc, failure>> /\ UNCHANGED extractVars

LCount ==
    /\ \E o \in {"ok", "raises"} : get_record_count(o)
    /\ UNCHANGED <<pc, failure>> /\ UNCHANGED extractVars

LClose ==
    /\ close
    /\ UNCHANGED <<pc, failure>> /\ UNCHANGED extractVars

LoaderNext ==
    \/ LConnect
    \/ LCreateTable
    \/ LLoad
    \/ LCount
    \/ LClose

LoaderSpec == LoaderInit /\ [][LoaderNext]_vars


\* ---------------------------------------------------------------- properties
\* extract_commits has returned its DataFrame
Returned == "extracted_at" \in df.columns

Last(s) == s[Len(s)]

SourceCauses == {"source:stats", "source:files"}

NoSourceError == \A i \in 1..Len(errorLog) : errorLog[i].cause \notin SourceCauses

\* the fields of row r are those of commit_dict d
SameFields(r, d) ==
    /\ r.commit_hash = d.commit_hash
    /\ r.author = d.author
    /\ r.author_name = d.author_name
    /\ r.timestamp = d.timestamp
    /\ r.files_changed = d.files_changed
    /\ r.lines_added = d.lines_added
    /\ r.lines_deleted = d.lines_deleted
    /\ r.total_changes = d.total_changes

\* C1: when exactly one consumed commit fails in the per-commit handler, the
\* call still returns; the result holds every other consumed commit exactly
\* once, in source order (sha k is the k-th commit of the source), the one
\* logged commit is the only one missing, and each record carries the values
\* read from its commit handle.
C1_OneFailureSkipped ==
    /\ (pc = "fetch" /\ idx > 0 /\ ExtractCommitData(commit).ok) =>
          /\ commits_data # <<>>
          /\ Last(commits_data).commit_hash = commit.sha
          /\ Last(commits_data).author = commit.author.email
          /\ Last(commits_data).author_name = commit.author.name
          /\ Last(commits_data).timestamp = commit.date
          /\ Last(commits_data).files_changed = commit.files.count
          /\ Last(commits_data).lines_added = commit.stats.additions
          /\ Last(commits_data).lines_deleted = commit.stats.deletions
    /\ (pc = "stamp" /\ Len(errorLog) = 1) =>
          /\ Len(commits_data) = idx - 1
          /\ \A i \in 1..Len(commits_data) :
                commits_data[i].commit_hash = IF i < errorLog[1].sha THEN i ELSE i + 1
    /\ (Returned /\ Len(errorLog) = 1) =>
          /\ failure \notin {"get_repo", "pagination"}
          /\ Len(df.rows) = idx - 1
          /\ \A i \in 1..Len(df.rows) :
                /\ df.rows[i].commit_hash = IF i < errorLog[1].sha THEN i ELSE i + 1
                /\ SameFields(df.rows[i], commits_data[i])

C1_Witness ==
    /\ Returned
    /\ idx = 3
    /\ Len(errorLog) = 1
    /\ errorLog[1].sha = 2
    /\ errorLog[1].cause = "attribute:stats"
    /\ Len(df.rows) = 2

\* C2: with max_commits = n >= 0 and no source-level error, at most n commits
\* are consumed, at most n records are returned, the number of records is the
\* number consumed minus the number skipped, and when the source did not end
\* early exactly n were consumed.
C2_BoundedByMaxCommits ==
    /\ idx <= max_commits
    /\ Len(commits_data) + Len(errorLog) = idx - (IF pc = "process" THEN 1 ELSE 0)
    /\ (Returned /\ NoSourceError) =>
          /\ Len(df.rows) <= max_commits
          /\ Len(df.rows) = idx - Len(errorLog)
          /\ (~exhausted => Len(df.rows) = max_commits - Len(errorLog))

C2_Witness ==
    /\ Returned
    /\ NoSourceError
    /\ ~exhausted
    /\ max_commits = 3
    /\ Len(errorLog) = 1
    /\ Len(df.rows) = 2

\* C3 (as claimed): once save_to_csv has succeeded, main does not raise.
C3_CsvSuccessMeansRunSuccess ==
    pc = "raised" => failure \in {"load_main_config", "get_repo", "pagination", "save_to_csv"}

\* C4 (as claimed): a run in which connect succeeded never ends with the
\* connection still open.
C4_ConnectionReleased ==
    pc \in {"complete", "raised"} => link # "connected"

\* C5 (as claimed): a failed remote read is never logged and skipped by the
\* per-commit handler.
C5_SourceErrorNotMasked ==
    \A i \in 1..Len(errorLog) : errorLog[i].cause \notin SourceCauses

\* C6 (as claimed): get_statistics on the empty extraction result returns
\* total_commits = 0 and undefined date range and means, without raising.
C6_EmptyStatistics ==
    (pc = "get_statistics" /\ df.rows = <<>>) =>
        LET r == GetStatistics(df)
        IN /\ r.ok
           /\ r.value.total_commits = 0
           /\ ~r.value.start.defined
           /\ ~r.value.end.defined
           /\ ~r.value.avg_files_changed.defined
           /\ ~r.value.avg_lines_added.defined
           /\ ~r.value.avg_lines_deleted.defined

\* C7 (as claimed): load_dataframe ends with the not-connected error unless
\* the loader holds a successful connection that has not been closed.
C7_LoadNeedsConnection ==
    (lastOp = "load_dataframe" /\ link # "connected") => lastResult = "NotConnected"

\* C8 (as claimed): every record has total_changes = lines_added + lines_deleted.
C8_TotalChanges ==
    \A i \in 1..Len(commits_data) :
        commits_data[i].total_changes
            = commits_data[i].lines_added + commits_data[i].lines_deleted

\* C9: all rows of the returned DataFrame carry one extracted_at value, the
\* clock value read after the loop had finished (the step before the export).
C9_SingleExtractedAt ==
    /\ Returned =>
          \A i, j \in 1..Len(df.rows) : df.rows[i].extracted_at = df.rows[j].extracted_at
    /\ pc = "save_to_csv" =>
          \A i \in 1..Len(df.rows) : df.rows[i].extracted_at = now - 1

C9_Witness ==
    /\ pc = "save_to_csv"
    /\ Len(df.rows) = 3

C11_ZeroMaxCommits ==
    (max_commits = 0 /\ pc \notin {"load_main_config", "get_repo"}
        /\ failure \notin {"load_main_config", "get_repo"}) =>
        /\ idx = 0
        /\ commit = NoCommit
        /\ commits_data = <<>>
        /\ errorLog = <<>>
        /\ failure # "pagination"
        /\ (pc \notin {"fetch", "stamp"} => Returned /\ df.rows = <<>>)

C11_Witness ==
    /\ max_commits = 0
    /\ pc = "save_to_csv"
    /\ Returned
    /\ df.rows = <<>>
    /\ ~exhausted


\* C12: when save_to_csv raises, main ends by re-raising: the run never
\* reaches its completion banner, and no step of the database block
\* (get_database_url, connect, create_table_if_not_exists, load_dataframe)
\* has run or runs afterwards, so the loader and the table are untouched.
C12_CsvFailureIsFatal ==
    failure = "save_to_csv" =>
        /\ pc = "raised"
        /\ lastOp = "none"
        /\ lastResult = "none"
        /\ engine = "None"
        /\ link = "never"
        /\ table = NoTable

C12_Witness ==
    /\ failure = "save_to_csv"
    /\ pc = "raised"
    /\ Len(df.rows) = 2


\* C13: every call of create_table_if_not_exists on a connected loader ends
\* without error or with the connection's own error (the server unreachable
\* at that call), never with an error caused by the table being there
\* already; a call that finds the table leaves its definition and its rows
\* as they were, and a call that succeeds leaves the table existing with the
\* rows it had.
C13_CreateTableIdempotent ==
    [][(link = "connected" /\ lastOp' = "create_table_if_not_exists") =>
          /\ lastResult' \in {"ok", "OperationalError"}
          /\ (table.exists => table' = table)
          /\ (lastResult' = "ok" => table'.exists /\ table'.rows = table.rows)]_vars

\* a further call succeeded on the table an earlier call had created and a
\* load had filled
C13_Witness ==
    /\ link = "connected"
    /\ lastOp = "create_table_if_not_exists"
    /\ lastResult = "ok"
    /\ table.exists
    /\ table.unique
    /\ Len(table.rows) = 2


\* ---------------------------------------------------------------- repeated runs
\* The database block of main, run again and again against one database:
\* each run is a new process with a new DatabaseLoader and the frame its
\* extraction returned (the same commits as an earlier run, or others); the
\* table is what the earlier runs left. The clock counts from the run's start.
RunsInit ==
    /\ pc = "start"
    /\ failure = "none"
    /\ max_commits = 0
    /\ idx = 0
    /\ commit = NoCommit
    /\ exhausted = FALSE
    /\ commits_data = <<>>
    /\ errorLog = <<>>
    /\ now = 0
    /\ df = NoFrame
    /\ stats = NoStats
    /\ engine = "None"
    /\ link = "never"
    /\ table = NoTable
    /\ lastOp = "none"
    /\ lastResult = "none"

StartRun ==
    /\ pc \in {"start", "complete"}
    /\ \E d \in LoaderFrames :
         /\ Len(table.rows) + Len(d.rows) <= MaxTableRows
         /\ df' = d
    /\ pc' = "get_database_url"
    /\ now' = 0
    /\ engine' = "None"
    /\ link' = "never"
    /\ lastOp' = "none"
    /\ lastResult' = "none"
    /\ UNCHANGED <<failure, max_commits, idx, commit, exhausted, commits_data, errorLog,
                   stats, table>>

RunsNext ==
    \/ StartRun
    \/ GetDatabaseUrl
    \/ MainConnect
    \/ MainCreateTable
    \/ MainLoad
    \/ MainCount
    \/ MainClose

RunsSpec == RunsInit /\ [][RunsNext]_vars

\* C14: after any number of runs of main's database block against one
\* database that had no raw_commits table before the first run, the table
\* holds no two rows with the same commit_hash: the table is always the one
\* create_table_if_not_exists made, with commit_hash UNIQUE, and a load that
\* would repeat a hash is rejected as a whole.
C14_NoDuplicateHashes ==
    /\ Cardinality(Range(table.rows)) = Len(table.rows)
    /\ (table.exists => table.unique)

\* a run loaded the commits an earlier run had already loaded and was rejected
C14_Witness ==
    /\ pc = "complete"
    /\ lastOp = "load_dataframe"
    /\ lastResult = "IntegrityError"
    /\ Len(df.rows) = 1
    /\ df.rows[1].commit_hash \in Range(table.rows)
    /\ Len(table.rows) = 2

====
